---- MODULE Spec2Model ----
(***************************************************************************)
(* rusqlite-from-row: the FromRow derive macro (directive parser and code  *)
(* generator, rusqlite-from-row-derive/src/lib.rs), the FromRow trait with *)
(* its Option<T> implementation (src/lib.rs), and the behaviour of the     *)
(* generated try_from_row_prefixed / is_all_null on a rusqlite row.        *)
(*                                                                         *)
(* The macro is modelled in two stages, as in the source: parse turns the  *)
(* annotations of a field into FromRowAttrs, generate turns the fields     *)
(* into the expressions of the two trait methods; the generated            *)
(* expressions are then evaluated against a row.                           *)
(***************************************************************************)
EXTENDS Integers, Sequences, FiniteSets, TLC

VARIABLES
    crate,      \* the source file: a sequence of DeriveInput, in source order
    expanded,   \* how many derive inputs of the crate the macro has expanded
    error,      \* Option<syn::Error>: the compile error of a failed expansion
    derives,    \* struct name -> the DeriveFromRow value parse returned for it
    impls,      \* struct name -> the generated FromRow implementation
    built,      \* the crate compiled: the generated methods can be called
    row,        \* Option<Row>: the row the program holds, with the query it came from
    result      \* the last call on the row: operation, arguments, outcome, columns read

vars == <<crate, expanded, error, derives, impls, built, row, result>>

(***************************************************************************)
(* Rust's Option and Result.                                               *)
(***************************************************************************)
None == <<>>
Some(x) == <<x>>
IsSome(o) == o # <<>>
Unwrap(o) == o[1]

Ok(v) == [ok |-> TRUE, v |-> v]
Err(e) == [ok |-> FALSE, err |-> e]

UnwrapOr(o, d) == IF IsSome(o) THEN Unwrap(o) ELSE d

(***************************************************************************)
(* Bounds of the model.                                                    *)
(***************************************************************************)
\* integer column values are 0..MaxInt
MaxInt == 1

(***************************************************************************)
(* Types.  A type is a name under 'opt' layers of Option<..>.              *)
(***************************************************************************)
Ty(n) == [opt |-> 0, name |-> n]
OptionOf(ty) == [ty EXCEPT !.opt = @ + 1]
OptionArg(ty) == [ty EXCEPT !.opt = @ - 1]

(***************************************************************************)
(* The annotations of a field, as the macro receives them.                 *)
(* An attribute is #[path(metas)]; a meta is a path or path = "value".    *)
(***************************************************************************)
Meta(p) == [path |-> p, value |-> None]
MetaValue(p, v) == [path |-> p, value |-> Some(v)]
Attribute(p, metas) == [path |-> p, metas |-> metas]
FromRowAttr(metas) == Attribute("from_row", metas)

PrefixValue(s) == [kind |-> "Value", value |-> s]
PrefixField == [kind |-> "Field", value |-> ""]

ConvertFrom(ty) == [kind |-> "From", arg |-> ty]
ConvertTryFrom(ty) == [kind |-> "TryFrom", arg |-> ty]
ConvertFromFn(f) == [kind |-> "FromFn", arg |-> f]

AttrsFlatten(prefix, default) ==
    [variant |-> "Flatten", prefix |-> prefix, default |-> default]
AttrsField(rename, convert, default) ==
    [variant |-> "Field", rename |-> rename, convert |-> convert, default |-> default]
AttrsSkip == [variant |-> "Skip"]

\* the mutable locals of FromRowAttrs::parse
ParseLocals ==
    [flatten |-> FALSE, prefix |-> None, try_from |-> None, from |-> None,
     from_fn |-> None, rename |-> None, skip |-> FALSE, default |-> FALSE,
     failed |-> None]

\* meta.value()?.parse()? of a key that takes a value
NeedsValue(st, meta, field) ==
    IF IsSome(meta.value)
    THEN [st EXCEPT ![field] = Some(Unwrap(meta.value))]
    ELSE [st EXCEPT !.failed = Some("expected '='")]

\* the closure handed to parse_nested_meta: one key of one annotation
ParseNestedMeta(st, meta) ==
    IF meta.path = "flatten" THEN [st EXCEPT !.flatten = TRUE]
    ELSE IF meta.path = "prefix" THEN
        [st EXCEPT !.prefix = Some(IF IsSome(meta.value)
                                   THEN PrefixValue(Unwrap(meta.value))
                                   ELSE PrefixField)]
    ELSE IF meta.path = "try_from" THEN NeedsValue(st, meta, "try_from")
    ELSE IF meta.path = "from" THEN NeedsValue(st, meta, "from")
    ELSE IF meta.path = "from_fn" THEN NeedsValue(st, meta, "from_fn")
    ELSE IF meta.path = "rename" THEN NeedsValue(st, meta, "rename")
    ELSE IF meta.path = "skip" THEN [st EXCEPT !.skip = TRUE]
    ELSE IF meta.path = "default" THEN [st EXCEPT !.default = TRUE]
    ELSE st

RECURSIVE ParseMetas(_, _)
ParseMetas(st, metas) ==
    IF metas = <<>> \/ IsSome(st.failed) THEN st
    ELSE ParseMetas(ParseNestedMeta(st, Head(metas)), Tail(metas))

\* the loop over the attributes of the field; other attributes are passed over
RECURSIVE ParseAttributes(_, _)
ParseAttributes(st, attrs) ==
    IF attrs = <<>> \/ IsSome(st.failed) THEN st
    ELSE IF Head(attrs).path # "from_row" THEN ParseAttributes(st, Tail(attrs))
    ELSE ParseAttributes(ParseMetas(st, Head(attrs).metas), Tail(attrs))

SkipConflict == "can't combine 'skip' with other attributes"
PrefixConflict == "'prefix' attribute is only valid in combination with 'flatten'"
ConvertConflict == "can't combine 'try_from', 'from' or 'from_fn'"

\* a faulty variant, which the properties below tell apart: default is not counted among the other attributes of skip
ValidateSkipWithDefault(st) ==
    IF st.skip THEN
        LET other_attrs == \/ st.flatten
                           \/ IsSome(st.prefix)
                           \/ IsSome(st.try_from)
                           \/ IsSome(st.from_fn)
                           \/ IsSome(st.from)
                           \/ IsSome(st.rename)
        IN  IF other_attrs THEN Err(SkipConflict) ELSE Ok(AttrsSkip)
    ELSE IF st.flatten THEN
        IF IsSome(st.rename) \/ IsSome(st.from) \/ IsSome(st.try_from) \/ IsSome(st.from_fn)
        THEN Err(SkipConflict)
        ELSE Ok(AttrsFlatten(st.prefix, st.default))
    ELSE Ok(AttrsField(st.rename, None, st.default))

\* a faulty variant, which the properties below tell apart: prefix without flatten is passed over
ValidatePrefixWithoutFlatten(st) ==
    IF st.skip THEN Ok(AttrsSkip)
    ELSE IF st.flatten THEN
        IF IsSome(st.rename) \/ IsSome(st.from) \/ IsSome(st.try_from) \/ IsSome(st.from_fn)
        THEN Err(SkipConflict)
        ELSE Ok(AttrsFlatten(st.prefix, st.default))
    ELSE
        IF IsSome(st.try_from) /\ ~IsSome(st.from) /\ ~IsSome(st.from_fn)
             THEN Ok(AttrsField(st.rename, Some(ConvertTryFrom(Ty(Unwrap(st.try_from)))), st.default))
        ELSE IF ~IsSome(st.try_from) /\ IsSome(st.from) /\ ~IsSome(st.from_fn)
             THEN Ok(AttrsField(st.rename, Some(ConvertFrom(Ty(Unwrap(st.from)))), st.default))
        ELSE IF ~IsSome(st.try_from) /\ ~IsSome(st.from) /\ IsSome(st.from_fn)
             THEN Ok(AttrsField(st.rename, Some(ConvertFromFn(Unwrap(st.from_fn))), st.default))
        ELSE IF ~IsSome(st.try_from) /\ ~IsSome(st.from) /\ ~IsSome(st.from_fn)
             THEN Ok(AttrsField(st.rename, None, st.default))
        ELSE Err(ConvertConflict)

\* the validation that follows the loop
Validate(st) ==
    IF st.skip THEN
        LET other_attrs == \/ st.flatten
                           \/ st.default
                           \/ IsSome(st.prefix)
                           \/ IsSome(st.try_from)
                           \/ IsSome(st.from_fn)
                           \/ IsSome(st.from)
                           \/ IsSome(st.rename)
        IN  IF other_attrs THEN Err(SkipConflict) ELSE Ok(AttrsSkip)
    ELSE IF st.flatten THEN
        IF IsSome(st.rename) \/ IsSome(st.from) \/ IsSome(st.try_from) \/ IsSome(st.from_fn)
        THEN Err(SkipConflict)
        ELSE Ok(AttrsFlatten(st.prefix, st.default))
    ELSE
        IF IsSome(st.prefix) THEN Err(PrefixConflict)
        ELSE IF IsSome(st.try_from) /\ ~IsSome(st.from) /\ ~IsSome(st.from_fn)
             THEN Ok(AttrsField(st.rename, Some(ConvertTryFrom(Ty(Unwrap(st.try_from)))), st.default))
        ELSE IF ~IsSome(st.try_from) /\ IsSome(st.from) /\ ~IsSome(st.from_fn)
             THEN Ok(AttrsField(st.rename, Some(ConvertFrom(Ty(Unwrap(st.from)))), st.default))
        ELSE IF ~IsSome(st.try_from) /\ ~IsSome(st.from) /\ IsSome(st.from_fn)
             THEN Ok(AttrsField(st.rename, Some(ConvertFromFn(Unwrap(st.from_fn))), st.default))
        ELSE IF ~IsSome(st.try_from) /\ ~IsSome(st.from) /\ ~IsSome(st.from_fn)
             THEN Ok(AttrsField(st.rename, None, st.default))
        ELSE Err(ConvertConflict)

\* FromRowAttrs::parse
FromRowAttrsParse(attrs) ==
    IF attrs = <<>> THEN Ok(AttrsField(None, None, FALSE))
    ELSE LET st == ParseAttributes(ParseLocals, attrs)
         IN  IF IsSome(st.failed) THEN Err(Unwrap(st.failed)) ELSE Validate(st)

\* FromRowField::parse
FromRowFieldParse(field) ==
    LET attrs == FromRowAttrsParse(field.attrs)
    IN  IF attrs.ok
        THEN Ok([ident |-> field.ident, ty |-> field.ty, attrs |-> attrs.v])
        ELSE attrs

\* the loop of DeriveFromRow::parse over the named fields
RECURSIVE ParseFields(_, _)
ParseFields(fields, data) ==
    IF fields = <<>> THEN Ok(data)
    ELSE LET f == FromRowFieldParse(Head(fields))
         IN  IF f.ok THEN ParseFields(Tail(fields), Append(data, f.v)) ELSE f

\* DeriveFromRow::parse
DeriveFromRowParse(input) ==
    IF input.data # "struct_named" THEN Err("expected struct with named fields")
    ELSE LET data == ParseFields(input.fields, <<>>)
         IN  IF data.ok THEN Ok([ident |-> input.ident, data |-> data.v]) ELSE data



(***************************************************************************)
(* The generator.  The generated code is kept as expressions, which the    *)
(* evaluator below runs against a row.                                     *)
(***************************************************************************)
\* FromRowField::target_ty: None stands for the inferred type '_'
TargetTy(field) ==
    IF field.attrs.variant = "Field" /\ IsSome(field.attrs.convert)
    THEN IF Unwrap(field.attrs.convert).kind \in {"From", "TryFrom"}
         THEN Some(Unwrap(field.attrs.convert).arg)
         ELSE None
    ELSE Some(field.ty)

\* a faulty variant, which the properties below tell apart: rename is ignored
ColumnNameIdent(field) == field.ident

\* FromRowField::column_name
ColumnName(field) ==
    IF field.attrs.variant = "Field" /\ IsSome(field.attrs.rename)
    THEN Unwrap(field.attrs.rename)
    ELSE field.ident

\* the prefix argument of a nested call: prefix.unwrap_or("").to_string() + lit,
\* or the caller's prefix handed on
PrefixConcat(lit) == [e |-> "concat", lit |-> lit]
PrefixInherit == [e |-> "prefix", lit |-> ""]

\* the prefix expression generate_is_all_null builds for a flatten field
IsAllNullPrefix(field) ==
    LET prefix == field.attrs.prefix
    IN  IF IsSome(prefix) /\ Unwrap(prefix).kind = "Value"
        THEN PrefixConcat(Unwrap(prefix).value)
        ELSE IF IsSome(prefix) /\ Unwrap(prefix).kind = "Field"
        THEN PrefixConcat(field.ident \o "_")
        ELSE PrefixInherit

\* a faulty variant, which the properties below tell apart: a Skip field is probed like a Plain one
GenerateIsAllNullWithSkip(field) ==
    IF field.attrs.variant = "Flatten"
    THEN Some([e |-> "is_all_null", ty |-> field.ty, prefix |-> IsAllNullPrefix(field)])
    ELSE Some([e |-> "get_ref_is_null", column_name |-> field.ident])

\* FromRowField::generate_is_all_null
GenerateIsAllNull(field) ==
    IF field.attrs.variant = "Flatten"
    THEN Some([e |-> "is_all_null", ty |-> field.ty, prefix |-> IsAllNullPrefix(field)])
    ELSE IF field.attrs.variant = "Field"
    THEN Some([e |-> "get_ref_is_null", column_name |-> ColumnName(field)])
    ELSE None

\* a faulty variant, which the properties below tell apart: an explicit prefix is taken for a bare one
TryFromRowPrefixFieldName(field) ==
    IF IsSome(field.attrs.prefix) THEN PrefixConcat(field.ident \o "_") ELSE PrefixInherit

\* the prefix expression generate_try_from_row builds for a flatten field
TryFromRowPrefix(field) ==
    LET prefix == field.attrs.prefix
    IN  IF IsSome(prefix) /\ Unwrap(prefix).kind = "Value"
        THEN PrefixConcat(Unwrap(prefix).value)
        ELSE IF IsSome(prefix) /\ Unwrap(prefix).kind = "Field"
        THEN PrefixConcat(field.ident \o "_")
        ELSE PrefixInherit

\* a faulty variant, which the properties below tell apart: every Flatten field falls back to the default
GenerateFlattenAlwaysDefault(field) ==
    [e |-> "flatten_default", ty |-> field.ty, prefix |-> TryFromRowPrefix(field)]

\* the Flatten arm of generate_try_from_row
GenerateFlatten(field) ==
    IF field.attrs.default
    THEN [e |-> "flatten_default", ty |-> field.ty, prefix |-> TryFromRowPrefix(field)]
    ELSE [e |-> "flatten", ty |-> field.ty, prefix |-> TryFromRowPrefix(field)]

\* the Field arm of generate_try_from_row
GenerateField(field) ==
    [e |-> "field", column_name |-> ColumnName(field), target_ty |-> TargetTy(field),
     default |-> field.attrs.default, convert |-> field.attrs.convert,
     field_ty |-> field.ty]

\* the Skip arm of generate_try_from_row
GenerateSkip(field) == [e |-> "default", ty |-> field.ty]

\* FromRowField::generate_try_from_row: ident: base
GenerateTryFromRow(field) ==
    [ident |-> field.ident,
     base |-> IF field.attrs.variant = "Flatten" THEN GenerateFlatten(field)
              ELSE IF field.attrs.variant = "Field" THEN GenerateField(field)
              ELSE GenerateSkip(field)]

\* data.iter().filter_map(|f| f.generate_is_all_null())
RECURSIVE FilterMapIsAllNull(_)
FilterMapIsAllNull(data) ==
    IF data = <<>> THEN <<>>
    ELSE LET g == GenerateIsAllNull(Head(data))
         IN  (IF IsSome(g) THEN <<Unwrap(g)>> ELSE <<>>) \o FilterMapIsAllNull(Tail(data))

Pred(ty, bound, arg) == [ty |-> ty, bound |-> bound, arg |-> arg]
NoArg == Ty("")

\* FromRowField::add_predicates
AddPredicates(field) ==
    IF field.attrs.variant = "Field" THEN
        LET target_ty == TargetTy(field)
            convert == field.attrs.convert
        IN  (IF IsSome(target_ty)
             THEN <<Pred(Unwrap(target_ty), "FromSql", NoArg)>>
                  \o (IF field.attrs.default
                      THEN <<Pred(Unwrap(target_ty), "Default", NoArg)>>
                      ELSE <<>>)
             ELSE <<>>)
            \o (IF IsSome(convert) /\ Unwrap(convert).kind = "From"
                THEN <<Pred(Unwrap(convert).arg, "From", Unwrap(convert).arg)>>
                ELSE IF IsSome(convert) /\ Unwrap(convert).kind = "TryFrom"
                THEN <<Pred(field.ty, "TryFrom", Unwrap(convert).arg),
                       Pred(field.ty, "TryFromErrorIntoError", Unwrap(convert).arg),
                       Pred(field.ty, "TryFromErrorDebug", Unwrap(convert).arg)>>
                ELSE <<>>)
    ELSE IF field.attrs.variant = "Flatten" THEN
        <<Pred(field.ty, "FromRow", NoArg)>>
        \o (IF field.attrs.default THEN <<Pred(field.ty, "Default", NoArg)>> ELSE <<>>)
    ELSE <<Pred(field.ty, "Default", NoArg)>>

\* DeriveFromRow::predicates
RECURSIVE Predicates(_)
Predicates(data) ==
    IF data = <<>> THEN <<>> ELSE AddPredicates(Head(data)) \o Predicates(Tail(data))

\* DeriveFromRow::generate: the impl block with its where clause and two methods
Generate(derive) ==
    [ident |-> derive.ident,
     predicates |-> Predicates(derive.data),
     try_from_row_fields |->
        [i \in 1..Len(derive.data) |-> GenerateTryFromRow(derive.data[i])],
     is_all_null_fields |-> FilterMapIsAllNull(derive.data)]

\* try_derive_from_row
TryDeriveFromRow(input) ==
    LET from_row_derive == DeriveFromRowParse(input)
    IN  IF from_row_derive.ok THEN Ok(Generate(from_row_derive.v)) ELSE from_row_derive


(***************************************************************************)
(* The row accessor (rusqlite) and the values it yields.                   *)
(***************************************************************************)
\* rusqlite::types::ValueRef
Null == [t |-> "Null"]
Integer(i) == [t |-> "Integer", i |-> i]
Text(s) == [t |-> "Text", s |-> s]

\* Rust values: a type tag and a payload
Value(t, v) == [t |-> t, v |-> v]
NoneValue == Value("Option", None)
SomeValue(x) == Value("Option", Some(x))

\* rusqlite::Error
InvalidColumnName(name) == [kind |-> "InvalidColumnName", column |-> name, found |-> ""]
InvalidColumnType(name, found) == [kind |-> "InvalidColumnType", column |-> name, found |-> found]
\* From<FromSqlError> for Error, used by the ? on column_result: the column is not known
FromSqlConversionFailure == [kind |-> "FromSqlConversionFailure", column |-> "", found |-> "Null"]
\* From<<T as TryFrom<R>>::Error> for Error, used by the ? on try_from
TryFromFailure == [kind |-> "TryFromError", column |-> "", found |-> ""]

\* <T as FromSql>::column_result
RECURSIVE ColumnResult(_, _)
ColumnResult(ty, value) ==
    IF ty.opt > 0 THEN
        IF value = Null THEN Ok(NoneValue)
        ELSE LET r == ColumnResult(OptionArg(ty), value)
             IN  IF r.ok THEN Ok(SomeValue(r.v)) ELSE r
    ELSE IF ty.name = "i32" /\ value.t = "Integer" THEN Ok(Value("i32", value.i))
    ELSE IF ty.name = "bool" /\ value.t = "Integer" THEN Ok(Value("bool", value.i # 0))
    ELSE IF ty.name = "String" /\ value.t = "Text" THEN Ok(Value("String", value.s))
    ELSE Err("InvalidType")

\* Row::get_ref::<&str>
RowGetRef(r, name) ==
    IF name \in DOMAIN r THEN Ok(r[name]) ELSE Err(InvalidColumnName(name))

\* Row::get::<&str, T>
RowGet(r, name, ty) ==
    IF name \notin DOMAIN r THEN Err(InvalidColumnName(name))
    ELSE LET v == ColumnResult(ty, r[name])
         IN  IF v.ok THEN v ELSE Err(InvalidColumnType(name, r[name].t))

(***************************************************************************)
(* What the crate around the derived structs provides: the Default         *)
(* implementations and the conversions the annotations name.               *)
(***************************************************************************)
StructOf(name) ==
    LET i == CHOOSE i \in 1..Len(crate) : crate[i].ident = name IN crate[i]
IsStruct(name) == \E i \in 1..Len(crate) : crate[i].ident = name

\* <T as Default>::default(); a struct's is the one #[derive(Default)] gives
RECURSIVE DefaultValue(_)
DefaultValue(ty) ==
    IF ty.opt > 0 THEN NoneValue
    ELSE IF ty.name = "i32" THEN Value("i32", 0)
    ELSE IF ty.name = "bool" THEN Value("bool", FALSE)
    ELSE IF ty.name = "String" THEN Value("String", "")
    ELSE IF IsStruct(ty.name) THEN
        LET fields == StructOf(ty.name).fields
        IN  Value(ty.name, [i \in 1..Len(fields) |-> DefaultValue(fields[i].ty)])
    ELSE Value(ty.name, <<>>)

\* <Size as From<i32>>::from, <PathBuf as From<String>>::from
From(field_ty, value) == Value(field_ty.name, value.v)

\* <Level as TryFrom<i32>>::try_from: a level is at least 1
TryFrom(field_ty, value) ==
    IF value.v >= 1 THEN Ok(Value(field_ty.name, value.v)) ELSE Err(TryFromFailure)

\* the functions from_fn names
FnArg == [f \in {"PathBuf::from"} |-> Ty("String")]
FnRet == [f \in {"PathBuf::from"} |-> Ty("PathBuf")]
Call(func, value) == Value(FnRet[func].name, value.v)

(***************************************************************************)
(* The generated methods, evaluated.  Every evaluation yields the outcome  *)
(* and the columns it read from the row, in the order it read them.        *)
(***************************************************************************)
Eval(out, reads) == [out |-> out, reads |-> reads]

\* prefix.unwrap_or("").to_string() + column_name
Qualified(prefix, column_name) == UnwrapOr(prefix, "") \o column_name

\* the prefix argument of a nested call, an Option<&str>
ChildPrefix(expr, prefix) ==
    IF expr.e = "concat" THEN Some(UnwrapOr(prefix, "") \o expr.lit) ELSE prefix

\* the conversion wrapped around the decoded value
ApplyConvert(base, value) ==
    IF ~IsSome(base.convert) THEN Ok(value)
    ELSE IF Unwrap(base.convert).kind = "From" THEN Ok(From(base.field_ty, value))
    ELSE IF Unwrap(base.convert).kind = "TryFrom" THEN TryFrom(base.field_ty, value)
    ELSE Ok(Call(Unwrap(base.convert).arg, value))

\* the type the compiler infers for '_': the parameter of the from_fn function
InferredTy(base) ==
    IF IsSome(base.target_ty) THEN Unwrap(base.target_ty)
    ELSE FnArg[Unwrap(base.convert).arg]

\* a faulty variant, which the properties below tell apart: a column that does not exist is taken for a null one
EvalFieldDefaultOnMissing(base, r, prefix) ==
    LET name == Qualified(prefix, base.column_name)
        ref == RowGetRef(r, name)
    IN  IF ~ref.ok \/ ref.v = Null THEN Ok(DefaultValue(InferredTy(base)))
        ELSE LET v == ColumnResult(InferredTy(base), ref.v)
             IN  IF v.ok THEN v ELSE Err(FromSqlConversionFailure)

\* the generated expression of a Field with default: get_ref, then Default or column_result
EvalFieldDefault(base, r, prefix) ==
    LET name == Qualified(prefix, base.column_name)
        ref == RowGetRef(r, name)
    IN  IF ~ref.ok THEN ref
        ELSE IF ref.v = Null THEN Ok(DefaultValue(InferredTy(base)))
        ELSE LET v == ColumnResult(InferredTy(base), ref.v)
             IN  IF v.ok THEN v ELSE Err(FromSqlConversionFailure)

\* the generated expression of a Field without default: Row::get
EvalFieldGet(base, r, prefix) ==
    RowGet(r, Qualified(prefix, base.column_name), InferredTy(base))

\* the generated expression of a Field, conversion included
EvalField(base, r, prefix) ==
    LET v == IF base.default THEN EvalFieldDefault(base, r, prefix)
             ELSE EvalFieldGet(base, r, prefix)
    IN  Eval(IF v.ok THEN ApplyConvert(base, v.v) ELSE v,
             <<Qualified(prefix, base.column_name)>>)

\* match value { Some(value) => value, None => Default::default() }
MatchOrDefault(ty, value) ==
    IF IsSome(value.v) THEN Unwrap(value.v) ELSE DefaultValue(ty)

RECURSIVE TryFromRowPrefixedOf(_, _, _)
RECURSIVE IsAllNullOf(_, _, _)
RECURSIVE StructExpr(_, _, _, _, _, _)
RECURSIVE AndChain(_, _, _, _)
RECURSIVE EvalBase(_, _, _)

\* one field initialiser of the generated struct expression
EvalBase(base, r, prefix) ==
    IF base.e = "field" THEN EvalField(base, r, prefix)
    ELSE IF base.e = "flatten" THEN
        TryFromRowPrefixedOf(base.ty, r, ChildPrefix(base.prefix, prefix))
    ELSE IF base.e = "flatten_default" THEN
        LET value == TryFromRowPrefixedOf(OptionOf(base.ty), r, ChildPrefix(base.prefix, prefix))
        IN  IF value.out.ok
            THEN Eval(Ok(MatchOrDefault(base.ty, value.out.v)), value.reads)
            ELSE value
    ELSE Eval(Ok(DefaultValue(base.ty)), <<>>)

\* a faulty variant, which the properties below tell apart: the initialisers after a failing one still run, and the last error is returned
RECURSIVE StructExprAllFields(_, _, _, _, _, _)
StructExprAllFields(ident, fields, r, prefix, values, reads) ==
    IF Len(values) = Len(fields) THEN Eval(Ok(Value(ident, values)), reads)
    ELSE LET f == EvalBase(fields[Len(values) + 1].base, r, prefix)
             rest == StructExprAllFields(ident, fields, r, prefix,
                                         Append(values, f.out), reads \o f.reads)
         IN  IF f.out.ok \/ ~rest.out.ok THEN rest ELSE Eval(f.out, rest.reads)

\* Ok(Self { fields }): the initialisers run in the order written, and the
\* ? of a failing one returns its error at once
StructExpr(ident, fields, r, prefix, values, reads) ==
    IF Len(values) = Len(fields) THEN Eval(Ok(Value(ident, values)), reads)
    ELSE LET f == EvalBase(fields[Len(values) + 1].base, r, prefix)
         IN  IF f.out.ok
             THEN StructExpr(ident, fields, r, prefix, Append(values, f.out.v), reads \o f.reads)
             ELSE Eval(f.out, reads \o f.reads)

\* one operand of the generated conjunction
EvalProbe(probe, r, prefix) ==
    IF probe.e = "is_all_null"
    THEN IsAllNullOf(probe.ty, r, ChildPrefix(probe.prefix, prefix))
    ELSE LET ref == RowGetRef(r, Qualified(prefix, probe.column_name))
         IN  Eval(IF ref.ok THEN Ok(ref.v = Null) ELSE ref,
                  <<Qualified(prefix, probe.column_name)>>)

\* a faulty variant, which the properties below tell apart: only the first operand decides
AndChainFirstOnly(probes, r, prefix, reads) ==
    LET p == EvalProbe(Head(probes), r, prefix)
    IN  Eval(p.out, reads \o p.reads)

\* Ok(a && b && ..): left to right, the right operand only if the left is true
AndChain(probes, r, prefix, reads) ==
    LET p == EvalProbe(Head(probes), r, prefix)
    IN  IF ~p.out.ok \/ ~p.out.v \/ Len(probes) = 1
        THEN Eval(p.out, reads \o p.reads)
        ELSE AndChain(Tail(probes), r, prefix, reads \o p.reads)

\* a faulty variant, which the properties below tell apart: a failure of the decoder is taken for an absent value
OptionTryFromRowPrefixedOrNone(ty, r, prefix) ==
    LET is_all_null == IsAllNullOf(OptionArg(ty), r, prefix)
    IN  IF ~is_all_null.out.ok THEN is_all_null
        ELSE IF is_all_null.out.v THEN Eval(Ok(NoneValue), is_all_null.reads)
        ELSE LET value == TryFromRowPrefixedOf(OptionArg(ty), r, prefix)
             IN  Eval(IF value.out.ok THEN Ok(SomeValue(value.out.v)) ELSE Ok(NoneValue),
                      is_all_null.reads \o value.reads)

\* <Option<T> as FromRow>::try_from_row_prefixed
OptionTryFromRowPrefixed(ty, r, prefix) ==
    LET is_all_null == IsAllNullOf(OptionArg(ty), r, prefix)
    IN  IF ~is_all_null.out.ok THEN is_all_null
        ELSE IF is_all_null.out.v THEN Eval(Ok(NoneValue), is_all_null.reads)
        ELSE LET value == TryFromRowPrefixedOf(OptionArg(ty), r, prefix)
             IN  Eval(IF value.out.ok THEN Ok(SomeValue(value.out.v)) ELSE value.out,
                      is_all_null.reads \o value.reads)

\* a faulty variant, which the properties below tell apart: an optional value is never all-null
OptionIsAllNullNever(ty, r, prefix) == Eval(Ok(FALSE), <<>>)

\* <Option<T> as FromRow>::is_all_null
OptionIsAllNull(ty, r, prefix) == IsAllNullOf(OptionArg(ty), r, prefix)

\* the generated try_from_row_prefixed of a derived struct
DerivedTryFromRowPrefixed(ty, r, prefix) ==
    StructExpr(ty.name, impls[ty.name].try_from_row_fields, r, prefix, <<>>, <<>>)

\* the generated is_all_null of a derived struct
DerivedIsAllNull(ty, r, prefix) ==
    AndChain(impls[ty.name].is_all_null_fields, r, prefix, <<>>)

\* <ty as FromRow>::try_from_row_prefixed(row, prefix)
TryFromRowPrefixedOf(ty, r, prefix) ==
    IF ty.opt > 0 THEN OptionTryFromRowPrefixed(ty, r, prefix)
    ELSE DerivedTryFromRowPrefixed(ty, r, prefix)

\* <ty as FromRow>::is_all_null(row, prefix)
IsAllNullOf(ty, r, prefix) ==
    IF ty.opt > 0 THEN OptionIsAllNull(ty, r, prefix)
    ELSE DerivedIsAllNull(ty, r, prefix)


(***************************************************************************)
(* The compiler's check of the generated impl: the where clause and the    *)
(* trait calls of the two method bodies.                                   *)
(***************************************************************************)
FromImpls == {<<"Size", "i32">>, <<"PathBuf", "String">>}
TryFromImpls == {<<"Level", "i32">>}

ImplsFromSql(ty) == ty.name \in {"i32", "bool", "String"}
ImplsDefault(ty) ==
    \/ ty.opt > 0
    \/ ty.name \in {"i32", "bool", "String", "PhantomData"}
    \/ IsStruct(ty.name) /\ "Default" \in StructOf(ty.name).derives
ImplsFromRow(ty) == IsStruct(ty.name) /\ ty.name \in DOMAIN impls
ImplsFrom(ty, arg) == ty = arg \/ (ty.opt = 0 /\ arg.opt = 0 /\ <<ty.name, arg.name>> \in FromImpls)
ImplsTryFrom(ty, arg) == ty.opt = 0 /\ arg.opt = 0 /\ <<ty.name, arg.name>> \in TryFromImpls

Satisfied(pred) ==
    IF pred.bound = "FromSql" THEN ImplsFromSql(pred.ty)
    ELSE IF pred.bound = "Default" THEN ImplsDefault(pred.ty)
    ELSE IF pred.bound = "FromRow" THEN ImplsFromRow(pred.ty)
    ELSE IF pred.bound = "From" THEN ImplsFrom(pred.ty, pred.arg)
    ELSE ImplsTryFrom(pred.ty, pred.arg)

\* the trait calls of one field initialiser resolve
BaseTypeChecks(base) ==
    base.e = "field" =>
        /\ IsSome(base.convert) /\ Unwrap(base.convert).kind = "From" =>
               ImplsFrom(base.field_ty, Unwrap(base.convert).arg)
        /\ IsSome(base.convert) /\ Unwrap(base.convert).kind = "FromFn" =>
               /\ Unwrap(base.convert).arg \in DOMAIN FnArg
               /\ FnRet[Unwrap(base.convert).arg] = base.field_ty
               /\ ImplsFromSql(FnArg[Unwrap(base.convert).arg])
               /\ base.default => ImplsDefault(FnArg[Unwrap(base.convert).arg])

\* the impl compiles; a conjunction of no operands leaves Ok() without its argument
ImplCompiles(impl) ==
    /\ \A i \in 1..Len(impl.predicates) : Satisfied(impl.predicates[i])
    /\ \A i \in 1..Len(impl.try_from_row_fields) :
           BaseTypeChecks(impl.try_from_row_fields[i].base)
    /\ impl.is_all_null_fields # <<>>

\* the crate built: every derive expanded without error and every impl compiles
Compiled ==
    /\ expanded = Len(crate)
    /\ error = None
    /\ \A n \in DOMAIN impls : ImplCompiles(impls[n])

(***************************************************************************)
(* The crate the macro is run on: the structs of the integration test,     *)
(* with the shapes of annotation the macro accepts.                        *)
(***************************************************************************)
Field(ident, ty, attrs) == [ident |-> ident, ty |-> ty, attrs |-> attrs]
Struct(ident, traits, fields) ==
    [ident |-> ident, data |-> "struct_named", derives |-> traits, fields |-> fields]

Role ==
    Struct("Role", {"FromRow"},
        << Field("id", Ty("i32"), <<>>) >>)
User ==
    Struct("User", {"FromRow"},
        << Field("id", Ty("i32"), <<>>),
           Field("job", OptionOf(Ty("Role")),
                 << FromRowAttr(<< Meta("flatten"), MetaValue("prefix", "role_") >>) >>) >>)
Todo ==
    Struct("Todo", {"FromRow"},
        << Field("author", Ty("User"),
                 << Attribute("doc", <<>>),
                    FromRowAttr(<< Meta("flatten"), MetaValue("prefix", "author_") >>) >>),
           Field("editor", Ty("User"),
                 << FromRowAttr(<< Meta("flatten"), Meta("prefix") >>) >>) >>)
Status ==
    Struct("Status", {"FromRow", "Default"},
        << Field("is_done", Ty("bool"), <<>>),
           Field("memo", OptionOf(Ty("String")),
                 << FromRowAttr(<< MetaValue("rename", "note") >>) >>) >>)
Entry ==
    Struct("Entry", {"FromRow"},
        << Field("status", Ty("Status"),
                 << FromRowAttr(<< Meta("flatten"), Meta("default") >>) >>),
           Field("views", Ty("i32"),
                 << FromRowAttr(<< Meta("default") >>) >>),
           Field("empty", Ty("PhantomData"),
                 << FromRowAttr(<< Meta("skip") >>) >>) >>)
Settings ==
    Struct("Settings", {"FromRow"},
        << Field("theme", Ty("i32"), << FromRowAttr(<< Meta("default") >>) >>),
           Field("limit", OptionOf(Ty("i32")), << Attribute("doc", <<>>) >>) >>)
Profile ==
    Struct("Profile", {"FromRow"},
        << Field("settings", Ty("Settings"), << FromRowAttr(<< Meta("flatten") >>) >>) >>)
Doc ==
    Struct("Doc", {"FromRow"},
        << Field("file", Ty("PathBuf"),
                 << FromRowAttr(<< MetaValue("from_fn", "PathBuf::from") >>) >>),
           Field("level", Ty("Level"),
                 << FromRowAttr(<< Meta("default") >>),
                    FromRowAttr(<< MetaValue("try_from", "i32") >>) >>),
           Field("size", Ty("Size"),
                 << FromRowAttr(<< MetaValue("from", "i32"), MetaValue("rename", "sz") >>) >>) >>)

Crate == << Role, User, Todo, Status, Entry, Settings, Profile, Doc >>

\* the queries the program runs: the columns a query can return and the calls
\* (type, prefix) the program makes on its rows
Query(columns, calls) == [columns |-> columns, calls |-> calls]
CrateQueries ==
    [todo |-> Query({"author_id", "author_role_id", "editor_id", "editor_role_id"},
                    {<<Ty("Todo"), None>>, <<Ty("User"), Some("author_")>>,
                     <<OptionOf(Ty("Role")), Some("editor_role_")>>,
                     <<Ty("Role"), Some("author_role_")>>}),
     entry |-> Query({"is_done", "note", "views", "empty"},
                     {<<Ty("Entry"), None>>, <<Ty("Status"), None>>,
                      <<OptionOf(Ty("Status")), None>>}),
     profile |-> Query({"theme", "limit"},
                       {<<Ty("Profile"), None>>, <<Ty("Settings"), None>>}),
     doc |-> Query({"file", "level", "sz"}, {<<Ty("Doc"), None>>})]

\* a crate of one struct with one annotated field, for every set of keys the
\* macro knows, written in one annotation, in one annotation per key, or after
\* an annotation of another macro
KeyOrder == <<"flatten", "prefix", "try_from", "from", "from_fn", "rename", "skip", "default">>
Keys == {KeyOrder[i] : i \in 1..Len(KeyOrder)}
Layouts == {"one", "each", "doc"}

ProbeMeta(key, bare) ==
    IF key = "prefix" THEN (IF bare THEN Meta("prefix") ELSE MetaValue("prefix", "p_"))
    ELSE IF key = "try_from" THEN MetaValue("try_from", "i32")
    ELSE IF key = "from" THEN MetaValue("from", "i32")
    ELSE IF key = "from_fn" THEN MetaValue("from_fn", "PathBuf::from")
    ELSE IF key = "rename" THEN MetaValue("rename", "x")
    ELSE Meta(key)

ProbeMetas(keys, bare) ==
    LET In(k) == k \in keys
        order == SelectSeq(KeyOrder, In)
    IN  [i \in 1..Len(order) |-> ProbeMeta(order[i], bare)]

ProbeAttrs(keys, bare, layout) ==
    LET metas == ProbeMetas(keys, bare)
    IN  IF layout = "one" THEN << FromRowAttr(metas) >>
        ELSE IF layout = "each" THEN [i \in 1..Len(metas) |-> FromRowAttr(<<metas[i]>>)]
        ELSE << Attribute("doc", <<>>), FromRowAttr(metas) >>

\* a type with which the accepted annotations compile
ProbeTy(keys) ==
    IF "flatten" \in keys THEN Ty("Inner")
    ELSE IF "from" \in keys THEN Ty("Size")
    ELSE IF "try_from" \in keys THEN Ty("Level")
    ELSE IF "from_fn" \in keys THEN Ty("PathBuf")
    ELSE Ty("i32")

Inner ==
    Struct("Inner", {"FromRow", "Default"},
        << Field("id", Ty("i32"), <<>>) >>)
Probe(keys, bare, layout) ==
    Struct("Probe", {"FromRow"},
        << Field("n", Ty("i32"), <<>>),
           Field("f", ProbeTy(keys), ProbeAttrs(keys, bare, layout)) >>)

ProbeCrates ==
    { << Inner, Probe(keys, bare, layout) >> :
        keys \in SUBSET Keys, bare \in BOOLEAN, layout \in Layouts }

ProbeQueries ==
    [c \in {"f", "x", "id", "f_id", "p_id"} |-> Query({"n", c}, {<<Ty("Probe"), None>>})]

Queries == IF crate = Crate THEN CrateQueries ELSE ProbeQueries

ColumnValues == {Null, Text("a")} \cup {Integer(i) : i \in 0..MaxInt}

\* a row holds any of its query's columns, each with any value
Cells(q) == UNION { [cols -> ColumnValues] : cols \in SUBSET Queries[q].columns }

(***************************************************************************)
(* The state machine.                                                      *)
(***************************************************************************)
NoImpls == [n \in {} |-> {}]

\* the state before the compiler runs
Start ==
    /\ expanded = 0
    /\ error = None
    /\ derives = NoImpls
    /\ impls = NoImpls
    /\ built = FALSE
    /\ row = None
    /\ result = None

Init ==
    /\ crate = Crate
    /\ Start

\* derive_from_row: the compiler expands the next #[derive(FromRow)] of the crate;
\* an error becomes a compile error and no impl
DeriveFromRow ==
    /\ expanded < Len(crate)
    /\ error = None
    /\ LET from_row_derive == DeriveFromRowParse(crate[expanded + 1])
           r == TryDeriveFromRow(crate[expanded + 1])
       IN  IF r.ok
           THEN /\ derives' = (r.v.ident :> from_row_derive.v) @@ derives
                /\ impls' = (r.v.ident :> r.v) @@ impls
                /\ error' = error
           ELSE /\ derives' = derives
                /\ impls' = impls
                /\ error' = Some(r.err)
    /\ expanded' = expanded + 1
    /\ UNCHANGED <<crate, built, row, result>>

\* the compiler checks the expanded crate and produces the program
Build ==
    /\ ~built
    /\ Compiled
    /\ built' = TRUE
    /\ UNCHANGED <<crate, expanded, error, derives, impls, row, result>>

\* the program runs a query and is handed a row of it
QueryRow ==
    /\ built
    /\ row = None
    /\ \E q \in DOMAIN Queries : \E cells \in Cells(q) :
           row' = Some([query |-> q, cells |-> cells])
    /\ UNCHANGED <<crate, expanded, error, derives, impls, built, result>>

Called(op, ty, prefix, eval) ==
    Some([op |-> op, ty |-> ty, prefix |-> prefix, out |-> eval.out, reads |-> eval.reads])

\* the calls the program makes on the row it holds
Calls == IF IsSome(row) THEN Queries[Unwrap(row).query].calls ELSE {}

\* FromRow::try_from_row_prefixed(row, prefix)
TryFromRowPrefixed(ty, prefix) ==
    /\ built
    /\ result' = Called("try_from_row_prefixed", ty, prefix,
                        TryFromRowPrefixedOf(ty, Unwrap(row).cells, prefix))
    /\ UNCHANGED <<crate, expanded, error, derives, impls, built, row>>

\* FromRow::try_from_row(row): try_from_row_prefixed(row, None)
TryFromRow(ty) ==
    /\ built
    /\ result' = Called("try_from_row", ty, None,
                        TryFromRowPrefixedOf(ty, Unwrap(row).cells, None))
    /\ UNCHANGED <<crate, expanded, error, derives, impls, built, row>>

\* FromRow::is_all_null(row, prefix)
IsAllNull(ty, prefix) ==
    /\ built
    /\ result' = Called("is_all_null", ty, prefix,
                        IsAllNullOf(ty, Unwrap(row).cells, prefix))
    /\ UNCHANGED <<crate, expanded, error, derives, impls, built, row>>

Next ==
    \/ DeriveFromRow
    \/ Build
    \/ QueryRow
    \/ \E c \in Calls : TryFromRowPrefixed(c[1], c[2])
    \/ \E c \in {d \in Calls : d[2] = None} : TryFromRow(c[1])
    \/ \E c \in Calls : IsAllNull(c[1], c[2])

Spec == Init /\ [][Next]_vars

\* the macro run on every annotation of a field
InitParse ==
    /\ crate \in ProbeCrates
    /\ Start

SpecParse == InitParse /\ [][Next]_vars


(***************************************************************************)
(* The vocabulary of the properties: the last call and its row, and the    *)
(* columns a type is declared to be backed by.                             *)
(***************************************************************************)
Last == Unwrap(result)
TheRow == Unwrap(row).cells
IsDecode == IsSome(result) /\ Last.op \in {"try_from_row_prefixed", "try_from_row"}
IsProbe == IsSome(result) /\ Last.op = "is_all_null"
\* the inherited prefix of the last call, absent = ""
LastPrefix == IF Last.prefix = None THEN "" ELSE Unwrap(Last.prefix)
\* the parsed fields of a derived struct
Data(name) == derives[name].data
\* the value the decoded struct holds in its i-th field
FieldValue(out, i) == out.v.v[i]

IsMissingColumn(e) == e.kind = "InvalidColumnName"
IsNullOnNonNullable(e) == e.kind = "InvalidColumnType" /\ e.found = "Null"

\* the child prefix of a Flatten field under the inherited prefix P:
\* P + s for prefix = "s", P + field + "_" for a bare prefix, P without prefix
ClaimedChildPrefix(f, P) ==
    IF f.attrs.prefix = None THEN P
    ELSE IF Unwrap(f.attrs.prefix).kind = "Value" THEN P \o Unwrap(f.attrs.prefix).value
    ELSE P \o f.ident \o "_"

\* the column of a Plain field under the inherited prefix P
ClaimedColumn(f, P) ==
    P \o (IF f.attrs.rename = None THEN f.ident ELSE Unwrap(f.attrs.rename))

\* the columns backing a type under P: those of its Plain fields and, through
\* its Flatten fields, of the nested types; Option<T> is backed as T is
RECURSIVE Backing(_, _)
Backing(ty, P) ==
    UNION { LET f == Data(ty.name)[i]
            IN  IF f.attrs.variant = "Field" THEN {ClaimedColumn(f, P)}
                ELSE IF f.attrs.variant = "Flatten"
                THEN Backing(f.ty, ClaimedChildPrefix(f, P))
                ELSE {} :
            i \in 1..Len(Data(ty.name)) }

AllExist(cols) == cols \subseteq DOMAIN TheRow
AllNull(cols) == \A c \in cols : TheRow[c] = Null

\* the type a Plain field is decoded to from its column
DecodeTy(f) ==
    IF f.attrs.convert = None THEN f.ty
    ELSE IF Unwrap(f.attrs.convert).kind = "FromFn" THEN FnArg[Unwrap(f.attrs.convert).arg]
    ELSE Unwrap(f.attrs.convert).arg

\* a derived struct that cannot be decoded from null columns: it has a Plain
\* field without default of a non-nullable type, itself or through Flatten fields
\* without default of such structs, and no try_from conversion
RECURSIVE Strict(_)
Strict(ty) ==
    /\ ty.opt = 0
    /\ \A i \in 1..Len(Data(ty.name)) :
           LET f == Data(ty.name)[i]
           IN  f.attrs.variant = "Field" /\ f.attrs.convert # None
                   => Unwrap(f.attrs.convert).kind # "TryFrom"
    /\ \E i \in 1..Len(Data(ty.name)) :
           LET f == Data(ty.name)[i]
           IN  \/ f.attrs.variant = "Field" /\ ~f.attrs.default /\ DecodeTy(f).opt = 0
               \/ f.attrs.variant = "Flatten" /\ ~f.attrs.default /\ Strict(f.ty)

\* the Flatten fields without default of the struct last decoded, whose backing
\* columns all exist in the row and are null
NullFlattens ==
    { i \in 1..Len(Data(Last.ty.name)) :
        LET f == Data(Last.ty.name)[i]
        IN  /\ f.attrs.variant = "Flatten"
            /\ ~f.attrs.default
            /\ AllExist(Backing(f.ty, ClaimedChildPrefix(f, LastPrefix)))
            /\ AllNull(Backing(f.ty, ClaimedChildPrefix(f, LastPrefix))) }

\* the decode failed, and with a null-on-non-nullable error if it failed on a
\* column of the i-th field
FailsOnNull(i) ==
    LET f == Data(Last.ty.name)[i]
    IN  /\ ~Last.out.ok
        /\ Last.out.err.column \in Backing(f.ty, ClaimedChildPrefix(f, LastPrefix))
               => IsNullOnNonNullable(Last.out.err)

(***************************************************************************)
(* C1 as stated: a Flatten field without default whose backing columns all *)
(* exist and are null makes decode of the outer struct fail with a         *)
(* null-on-non-nullable error, whatever the nested type (Option<T> and     *)
(* structs of nullable or default fields included).                        *)
(***************************************************************************)
C1_AnyNestedTypeFails ==
    IsDecode /\ Last.ty.opt = 0 => \A i \in NullFlattens : FailsOnNull(i)

(***************************************************************************)
(* C1, amended: the same for a Flatten field without default whose nested  *)
(* type is a derived struct (not Option<T>) that has a Plain field without *)
(* default of a non-nullable type and no try_from conversion: decode of    *)
(* the outer struct fails, with a null-on-non-nullable error unless an     *)
(* earlier field of the outer struct failed first.                         *)
(***************************************************************************)
C1_StrictNestedTypeFails ==
    IsDecode /\ Last.ty.opt = 0 =>
        \A i \in NullFlattens : Strict(Data(Last.ty.name)[i].ty) => FailsOnNull(i)

\* Todo decoded from a row with an author and all columns of the editor null
C1_Witness ==
    /\ IsDecode
    /\ Last.ty = Ty("Todo")
    /\ 2 \in NullFlattens
    /\ Strict(Data("Todo")[2].ty)
    /\ ~Last.out.ok
    /\ Last.out.err = InvalidColumnType("editor_id", "Null")


(***************************************************************************)
(* C2: a Flatten field with default first runs the null-probe of the       *)
(* nested type under the child prefix.  If the probe reports all-null the  *)
(* field is the default of the declared type and the field raises no       *)
(* error; if it reports not-all-null the nested decoder runs, its value is *)
(* the field and its failure is the failure of decode, never the default.  *)
(* (Stated on the outer struct; the outer error is the nested one when the *)
(* Flatten field is the first field.)                                      *)
(***************************************************************************)
C2_FlattenDefault ==
    IsDecode /\ Last.ty.opt = 0 =>
        \A i \in 1..Len(Data(Last.ty.name)) :
            LET f == Data(Last.ty.name)[i]
                child == Some(ClaimedChildPrefix(f, LastPrefix))
                probe == IsAllNullOf(f.ty, TheRow, child)
                nested == TryFromRowPrefixedOf(f.ty, TheRow, child)
            IN  f.attrs.variant = "Flatten" /\ f.attrs.default =>
                    /\ i = 1 => SubSeq(Last.reads, 1, Len(probe.reads)) = probe.reads
                    /\ ~probe.out.ok => ~Last.out.ok /\ (i = 1 => Last.out = probe.out)
                    /\ probe.out.ok /\ probe.out.v =>
                           /\ Last.out.ok => FieldValue(Last.out, i) = DefaultValue(f.ty)
                           /\ ~Last.out.ok =>
                                  Last.out.err.column \notin Backing(f.ty, Unwrap(child))
                    /\ probe.out.ok /\ ~probe.out.v =>
                           /\ Last.out.ok =>
                                  nested.out.ok /\ FieldValue(Last.out, i) = nested.out.v
                           /\ ~nested.out.ok =>
                                  ~Last.out.ok /\ (i = 1 => Last.out = nested.out)

\* Entry decoded from a row whose status columns are null: the default Status
C2_Witness ==
    /\ IsDecode
    /\ Last.ty = Ty("Entry")
    /\ {"is_done", "note"} \subseteq DOMAIN TheRow
    /\ AllNull({"is_done", "note"})
    /\ Last.out.ok
    /\ FieldValue(Last.out, 1) = Value("Status", <<Value("bool", FALSE), NoneValue>>)

(***************************************************************************)
(* C3: is_all_null is the conjunction over the columns of the non-skip     *)
(* fields, through Flatten fields: when every contributing column exists   *)
(* it is true iff every one is null, and from a row where it is true,      *)
(* making any one contributing column non-null makes it false.             *)
(***************************************************************************)
C3_IsAllNullConjunction ==
    IsProbe /\ AllExist(Backing(Last.ty, LastPrefix)) =>
        /\ Last.out = Ok(AllNull(Backing(Last.ty, LastPrefix)))
        /\ Last.out.v =>
               \A c \in Backing(Last.ty, LastPrefix) : \A v \in ColumnValues \ {Null} :
                   IsAllNullOf(Last.ty, [TheRow EXCEPT ![c] = v], Last.prefix).out = Ok(FALSE)

\* Todo probed on a row whose only non-null column is the last one
C3_Witness ==
    /\ IsProbe
    /\ Last.ty = Ty("Todo")
    /\ AllExist(Backing(Last.ty, LastPrefix))
    /\ AllNull({"author_id", "author_role_id", "editor_id"})
    /\ TheRow["editor_role_id"] # Null
    /\ Last.out = Ok(FALSE)

(***************************************************************************)
(* C4: a Skip field never reads the row: its value is the default of its   *)
(* type, it adds no operand to is_all_null, and decode and is_all_null     *)
(* give the same outcome on every row that differs only in the column      *)
(* named like the field (no other field of the structs here resolves to    *)
(* that column).                                                           *)
(***************************************************************************)
Range(seq) == {seq[i] : i \in 1..Len(seq)}
Without(r, c) == [x \in DOMAIN r \ {c} |-> r[x]]
With(r, c, v) == [x \in DOMAIN r \cup {c} |-> IF x = c THEN v ELSE r[x]]
\* the last call made again on another row
Again(r) ==
    IF IsDecode THEN TryFromRowPrefixedOf(Last.ty, r, Last.prefix)
    ELSE IsAllNullOf(Last.ty, r, Last.prefix)

C4_SkipNeverReadsRow ==
    IsSome(result) /\ Last.ty.opt = 0 =>
        \A i \in 1..Len(Data(Last.ty.name)) :
            LET f == Data(Last.ty.name)[i]
                c == LastPrefix \o f.ident
            IN  f.attrs.variant = "Skip" =>
                    /\ c \notin Range(Last.reads)
                    /\ IsDecode /\ Last.out.ok => FieldValue(Last.out, i) = DefaultValue(f.ty)
                    /\ Len(impls[Last.ty.name].is_all_null_fields)
                           = Cardinality({j \in 1..Len(Data(Last.ty.name)) :
                                            Data(Last.ty.name)[j].attrs.variant # "Skip"})
                    /\ Again(Without(TheRow, c)).out = Last.out
                    /\ \A v \in ColumnValues : Again(With(TheRow, c, v)).out = Last.out

\* Entry decoded from a row without the column of its skipped field
C4_Witness ==
    /\ IsDecode
    /\ Last.ty = Ty("Entry")
    /\ "empty" \notin DOMAIN TheRow
    /\ Last.out.ok
    /\ FieldValue(Last.out, 3) = Value("PhantomData", <<>>)

(***************************************************************************)
(* C5: prefix composition.  Decode and is_all_null read only columns named *)
(* by the concatenation of the prefixes on the path (P + s for prefix =    *)
(* "s", P + field + "_" for a bare prefix, P without prefix) and the       *)
(* renamed or field name of the Plain field, and a decode that succeeds or *)
(* a probe that is true has read every one of them.                        *)
(***************************************************************************)
C5_PrefixComposition ==
    IsSome(result) =>
        /\ Range(Last.reads) \subseteq Backing(Last.ty, LastPrefix)
        /\ Last.out.ok /\ (IsProbe => Last.out.v) =>
               Range(Last.reads) = Backing(Last.ty, LastPrefix)

\* Todo decoded: the role of the author is read from author_role_id
C5_Witness ==
    /\ IsDecode
    /\ Last.ty = Ty("Todo")
    /\ Last.out.ok
    /\ Range(Last.reads) = {"author_id", "author_role_id", "editor_id", "editor_role_id"}


(***************************************************************************)
(* C6: a Plain field with default takes the default of its target type     *)
(* (then the conversion of the field) exactly when its column exists and   *)
(* is null; a non-null column is decoded as usual; a column that does not  *)
(* exist makes decode fail with the missing-column error.                  *)
(***************************************************************************)
\* the conversion of field f applied to the decoded value
ClaimedConvert(f, value) ==
    IF f.attrs.convert = None THEN Ok(value)
    ELSE IF Unwrap(f.attrs.convert).kind = "TryFrom" THEN TryFrom(f.ty, value)
    ELSE Ok(Value(f.ty.name, value.v))

\* decode reached the column c and failed there
FailedAt(c) == ~Last.out.ok /\ Last.reads # <<>> /\ Last.reads[Len(Last.reads)] = c

C6_PlainDefault ==
    IsDecode /\ Last.ty.opt = 0 =>
        \A i \in 1..Len(Data(Last.ty.name)) :
            LET f == Data(Last.ty.name)[i]
                c == ClaimedColumn(f, LastPrefix)
                default == ClaimedConvert(f, DefaultValue(DecodeTy(f)))
                decoded == ColumnResult(DecodeTy(f), TheRow[c])
            IN  f.attrs.variant = "Field" /\ f.attrs.default =>
                    /\ c \notin DOMAIN TheRow =>
                           /\ ~Last.out.ok
                           /\ c \in Range(Last.reads) => Last.out = Err(InvalidColumnName(c))
                    /\ c \in DOMAIN TheRow /\ TheRow[c] = Null =>
                           /\ Last.out.ok => default.ok /\ FieldValue(Last.out, i) = default.v
                           /\ FailedAt(c) => ~default.ok /\ Last.out = default
                    /\ c \in DOMAIN TheRow /\ TheRow[c] # Null =>
                           /\ Last.out.ok =>
                                  /\ decoded.ok
                                  /\ ClaimedConvert(f, decoded.v).ok
                                  /\ FieldValue(Last.out, i) = ClaimedConvert(f, decoded.v).v
                           /\ ~decoded.ok => ~Last.out.ok

\* Entry decoded from a row without the column views
C6_Witness ==
    /\ IsDecode
    /\ Last.ty = Ty("Entry")
    /\ "views" \notin DOMAIN TheRow
    /\ Last.out = Err(InvalidColumnName("views"))

(***************************************************************************)
(* C7: for a struct of Plain fields without default and conversion, decode *)
(* succeeds iff every column prefix + (rename or field name) exists and    *)
(* is decodable to the type of its field, every field is then the value    *)
(* the row accessor returns for its column, and the same call made again   *)
(* on the row gives the same result.                                       *)
(***************************************************************************)
PlainOnly(ty) ==
    /\ ty.opt = 0
    /\ \A i \in 1..Len(Data(ty.name)) :
           LET f == Data(ty.name)[i]
           IN  f.attrs.variant = "Field" /\ ~f.attrs.default /\ f.attrs.convert = None

Decodable(ty, cell) ==
    \/ ty.opt > 0 /\ cell = Null
    \/ ty.name \in {"i32", "bool"} /\ cell.t = "Integer"
    \/ ty.name = "String" /\ cell.t = "Text"

C7_PlainDecode ==
    IsDecode /\ PlainOnly(Last.ty) =>
        LET data == Data(Last.ty.name)
            column(i) == ClaimedColumn(data[i], LastPrefix)
        IN  /\ Last.out.ok <=>
                   \A i \in 1..Len(data) :
                       column(i) \in DOMAIN TheRow /\ Decodable(data[i].ty, TheRow[column(i)])
            /\ Last.out.ok =>
                   \A i \in 1..Len(data) :
                       FieldValue(Last.out, i) = RowGet(TheRow, column(i), data[i].ty).v

\* a call repeats the call before it
Repeats ==
    /\ IsSome(result)
    /\ IsSome(result')
    /\ Unwrap(result').op = Last.op
    /\ Unwrap(result').ty = Last.ty
    /\ Unwrap(result').prefix = Last.prefix

C7_PlainDecodeIdempotent ==
    [][C7_PlainDecode' /\ (Repeats => result' = result)]_vars

\* Status decoded from a row with both its columns
C7_Witness ==
    /\ IsDecode
    /\ Last.ty = Ty("Status")
    /\ Last.out = Ok(Value("Status", <<Value("bool", TRUE), SomeValue(Value("String", "a"))>>))

(***************************************************************************)
(* C8: decode evaluates the fields in declaration order and stops at the   *)
(* first failure: its error is that of the earliest field that fails on    *)
(* the row, the columns read are those of the fields up to that one and no *)
(* column of a later field, and a struct is returned only if no field      *)
(* fails.                                                                  *)
(***************************************************************************)
RECURSIVE Concat(_, _)
Concat(reads, n) == IF n = 0 THEN <<>> ELSE Concat(reads, n - 1) \o reads[n]

C8_FirstFailure ==
    IsDecode /\ Last.ty.opt = 0 =>
        LET fields == impls[Last.ty.name].try_from_row_fields
            declared == StructOf(Last.ty.name).fields
            each == [i \in 1..Len(fields) |-> EvalBase(fields[i].base, TheRow, Last.prefix)]
            reads == [i \in 1..Len(fields) |-> each[i].reads]
            failing == {i \in 1..Len(fields) : ~each[i].out.ok}
        IN  /\ Len(fields) = Len(declared)
            /\ \A i \in 1..Len(fields) : fields[i].ident = declared[i].ident
            /\ IF failing = {}
               THEN /\ Last.out.ok
                    /\ \A i \in 1..Len(fields) : FieldValue(Last.out, i) = each[i].out.v
                    /\ Last.reads = Concat(reads, Len(fields))
               ELSE LET first == CHOOSE i \in failing : \A j \in failing : i <= j
                    IN  /\ Last.out = each[first].out
                        /\ Last.reads = Concat(reads, first)

\* Todo decoded from a row on which both its fields fail: the error of the first
C8_Witness ==
    /\ IsDecode
    /\ Last.ty = Ty("Todo")
    /\ "author_id" \in DOMAIN TheRow
    /\ TheRow["author_id"] = Null
    /\ "editor_id" \notin DOMAIN TheRow
    /\ Last.out = Err(InvalidColumnType("author_id", "Null"))
    /\ Last.reads = <<"author_id">>


(***************************************************************************)
(* The vocabulary of the properties of the parser: the keys written on a   *)
(* field, in all its from_row annotations, and the structs the macro has   *)
(* been run on.                                                            *)
(***************************************************************************)
MetasOf(field) ==
    UNION { Range(field.attrs[a].metas) :
              a \in {b \in 1..Len(field.attrs) : field.attrs[b].path = "from_row"} }
KeysOf(field) == {m.path : m \in MetasOf(field)}
\* the value written for a key, if any
ValueOf(field, key) == (CHOOSE m \in MetasOf(field) : m.path = key).value

Attempted == 1..expanded
Rejected(k) == k = expanded /\ error # None
Annotated(k) == {i \in 1..Len(crate[k].fields) : KeysOf(crate[k].fields[i]) # {}}

(***************************************************************************)
(* C9: skip excludes every other key.  A field that carries skip and any   *)
(* of flatten, prefix, from, try_from, from_fn, rename, default, in one    *)
(* annotation or in several, fails the generation of its struct with the   *)
(* conflict error: no impl is produced for the struct and nothing is ever  *)
(* decoded; skip alone gives the Skip variant.                             *)
(***************************************************************************)
C9_SkipExcludesOtherKeys ==
    \A k \in Attempted : \A i \in Annotated(k) :
        LET f == crate[k].fields[i]
        IN  "skip" \in KeysOf(f) =>
                IF KeysOf(f) # {"skip"}
                THEN /\ Rejected(k)
                     /\ error = Some(SkipConflict)
                     /\ crate[k].ident \notin DOMAIN impls
                     /\ ~built
                     /\ result = None
                ELSE Annotated(k) = {i} =>
                     /\ ~Rejected(k)
                     /\ crate[k].ident \in DOMAIN impls
                     /\ Data(crate[k].ident)[i].attrs.variant = "Skip"
                     /\ impls[crate[k].ident].try_from_row_fields[i].base
                            = [e |-> "default", ty |-> f.ty]

\* skip and rename in two annotations of the field: the conflict error
C9_Witness ==
    /\ expanded = 2
    /\ Len(crate[2].fields[2].attrs) = 2
    /\ KeysOf(crate[2].fields[2]) = {"skip", "rename"}
    /\ error = Some(SkipConflict)
    /\ DOMAIN impls = {"Inner"}

(***************************************************************************)
(* C10: a set of keys without skip is rejected iff flatten comes with      *)
(* rename, from, try_from or from_fn, or prefix comes without flatten, or  *)
(* more than one of from, try_from, from_fn is given.  Every other set is  *)
(* accepted: Flatten{prefix, default} with flatten, else                   *)
(* Plain{rename, convert, default}, with exactly the modifiers written.    *)
(***************************************************************************)
Converts == {"from", "try_from", "from_fn"}

ClaimedRejected(keys) ==
    \/ "flatten" \in keys /\ keys \cap ({"rename"} \cup Converts) # {}
    \/ "prefix" \in keys /\ "flatten" \notin keys
    \/ Cardinality(keys \cap Converts) > 1

ClaimedPrefix(f) ==
    IF "prefix" \notin KeysOf(f) THEN None
    ELSE IF ValueOf(f, "prefix") = None THEN Some(PrefixField)
    ELSE Some(PrefixValue(Unwrap(ValueOf(f, "prefix"))))

ClaimedConversion(f) ==
    IF "from" \in KeysOf(f) THEN Some(ConvertFrom(Ty(Unwrap(ValueOf(f, "from")))))
    ELSE IF "try_from" \in KeysOf(f)
    THEN Some(ConvertTryFrom(Ty(Unwrap(ValueOf(f, "try_from")))))
    ELSE IF "from_fn" \in KeysOf(f) THEN Some(ConvertFromFn(Unwrap(ValueOf(f, "from_fn"))))
    ELSE None

ClaimedAttrs(f) ==
    IF "flatten" \in KeysOf(f)
    THEN AttrsFlatten(ClaimedPrefix(f), "default" \in KeysOf(f))
    ELSE AttrsField(IF "rename" \in KeysOf(f) THEN ValueOf(f, "rename") ELSE None,
                    ClaimedConversion(f), "default" \in KeysOf(f))

C10_KeysWithoutSkip ==
    \A k \in Attempted : \A i \in 1..Len(crate[k].fields) :
        LET f == crate[k].fields[i]
        IN  "skip" \notin KeysOf(f) /\ Annotated(k) \subseteq {i} =>
                IF ClaimedRejected(KeysOf(f))
                THEN Rejected(k) /\ crate[k].ident \notin DOMAIN derives
                ELSE /\ ~Rejected(k)
                     /\ crate[k].ident \in DOMAIN derives
                     /\ Data(crate[k].ident)[i].attrs.variant = ClaimedAttrs(f).variant
                     /\ Data(crate[k].ident)[i].attrs = ClaimedAttrs(f)

\* flatten, a bare prefix and default: Flatten with the field-derived prefix and default
C10_Witness ==
    /\ expanded = 2
    /\ KeysOf(crate[2].fields[2]) = {"flatten", "prefix", "default"}
    /\ ValueOf(crate[2].fields[2], "prefix") = None
    /\ "Probe" \in DOMAIN derives
    /\ Data("Probe")[2].attrs = AttrsFlatten(Some(PrefixField), TRUE)


(***************************************************************************)
(* The vocabulary of the properties of the where clause: the requirements  *)
(* collected for the impl of a struct and for one of its fields.           *)
(***************************************************************************)
Expanded(k) == k \in Attempted /\ crate[k].ident \in DOMAIN impls
Collected(k) == Range(impls[crate[k].ident].predicates)
CollectedFor(k, i) == Range(AddPredicates(Data(crate[k].ident)[i]))
\* the plain fields of struct k that carry the conversion key
Converted(k, key) ==
    {i \in 1..Len(crate[k].fields) :
        key \in KeysOf(crate[k].fields[i]) /\ "flatten" \notin KeysOf(crate[k].fields[i])}
Intermediate(k, i, key) == Ty(Unwrap(ValueOf(crate[k].fields[i], key)))

\* decode-from-column, and produce-default under default, are asked of R and not of D
OnIntermediate(k, i, R) ==
    LET D == crate[k].fields[i].ty
        dflt == "default" \in KeysOf(crate[k].fields[i])
    IN  /\ Pred(R, "FromSql", NoArg) \in CollectedFor(k, i)
        /\ dflt => Pred(R, "Default", NoArg) \in CollectedFor(k, i)
        /\ D # R => /\ Pred(D, "FromSql", NoArg) \notin CollectedFor(k, i)
                    /\ Pred(D, "Default", NoArg) \notin CollectedFor(k, i)
        /\ CollectedFor(k, i) \subseteq Collected(k)

(***************************************************************************)
(* C11: for a plain field of declared type D with from = "R" the where     *)
(* clause of the impl holds D: From<R>; with try_from = "R" it holds       *)
(* D: TryFrom<R>, with the error type Debug and convertible into the       *)
(* mapping error; in both cases FromSql, and Default under default, are    *)
(* asked of R and not of D.                                                *)
(***************************************************************************)
C11_FromRequirements ==
    \A k \in 1..Len(crate) : Expanded(k) =>
        \A i \in Converted(k, "from") :
            LET R == Intermediate(k, i, "from")
            IN  /\ Pred(crate[k].fields[i].ty, "From", R) \in Collected(k)
                /\ OnIntermediate(k, i, R)

C11_TryFromRequirements ==
    \A k \in 1..Len(crate) : Expanded(k) =>
        \A i \in Converted(k, "try_from") :
            LET R == Intermediate(k, i, "try_from")
                D == crate[k].fields[i].ty
            IN  /\ Pred(D, "TryFrom", R) \in Collected(k)
                /\ Pred(D, "TryFromErrorDebug", R) \in Collected(k)
                /\ Pred(D, "TryFromErrorIntoError", R) \in Collected(k)
                /\ OnIntermediate(k, i, R)

C11_ConversionRequirements == C11_FromRequirements /\ C11_TryFromRequirements

\* what the collector does ask for with from = "R": FromSql on R, and R: From<R>
C11_FromOnIntermediateOnly ==
    \A k \in 1..Len(crate) : Expanded(k) =>
        \A i \in Converted(k, "from") :
            LET R == Intermediate(k, i, "from")
            IN  /\ OnIntermediate(k, i, R)
                /\ Pred(R, "From", R) \in Collected(k)
                /\ crate[k].fields[i].ty # R =>
                       Pred(crate[k].fields[i].ty, "From", R) \notin Collected(k)

\* Doc is expanded and built: size: Size with from = "i32" left i32: From<i32>
\* in the where clause, and Size: From<i32> is not in it
C11_Witness ==
    /\ "Doc" \in DOMAIN impls
    /\ built
    /\ Pred(Ty("i32"), "From", Ty("i32")) \in Range(impls["Doc"].predicates)
    /\ Pred(Ty("Size"), "From", Ty("i32")) \notin Range(impls["Doc"].predicates)
    /\ Pred(Ty("Level"), "TryFrom", Ty("i32")) \in Range(impls["Doc"].predicates)


(***************************************************************************)
(* C12: decoding Option<T> returns the error of T's null-probe if the      *)
(* probe fails, None if the probe is true, without invoking T's decoder,   *)
(* and otherwise Some(v) with v the value T's decoder returns, or the      *)
(* failure of T's decoder; the null-probe of Option<T> returns exactly     *)
(* what T's null-probe returns on the same row and prefix.                 *)
(***************************************************************************)
C12_OptionWrapper ==
    IsSome(result) /\ Last.ty.opt > 0 =>
        LET T == OptionArg(Last.ty)
            probe == IsAllNullOf(T, TheRow, Last.prefix)
            decoded == TryFromRowPrefixedOf(T, TheRow, Last.prefix)
        IN  /\ IsProbe => Last.out = probe.out /\ Last.reads = probe.reads
            /\ IsDecode =>
                   IF ~probe.out.ok
                   THEN Last.out = probe.out /\ Last.reads = probe.reads
                   ELSE IF probe.out.v
                   THEN Last.out = Ok(NoneValue) /\ Last.reads = probe.reads
                   ELSE /\ Last.reads = probe.reads \o decoded.reads
                        /\ decoded.out.ok => Last.out = Ok(SomeValue(decoded.out.v))
                        /\ ~decoded.out.ok => Last.out = decoded.out

\* Option<Role> decoded under editor_role_ from a row whose editor_role_id is an
\* integer: the probe read the column and was false, the decoder gave the Role
C12_Witness ==
    /\ IsDecode
    /\ Last.ty = OptionOf(Ty("Role"))
    /\ Last.prefix = Some("editor_role_")
    /\ "editor_role_id" \in DOMAIN TheRow
    /\ TheRow["editor_role_id"] = Integer(1)
    /\ Last.reads = <<"editor_role_id", "editor_role_id">>
    /\ Last.out = Ok(SomeValue(Value("Role", <<Value("i32", 1)>>)))

====
